---- MODULE Spec2Model ----
(***************************************************************************)
(* Model of TronHandler (offchain-modules/src/packages/handlers/tron.ts):  *)
(* the lock watcher (watchLockEvents) that ingests incoming transfers into *)
(* CkbMint / TronLock rows, and the unlock settler (watchUnlockEvents)     *)
(* that signs and broadcasts the transactions of TronUnlock rows.          *)
(* Every await of the code is one step; a step either returns or throws.   *)
(***************************************************************************)
EXTENDS Integers, Sequences, FiniteSets, TLC

\* ------------------------------------------------------------- bounds
MaxTs == 2
MaxTransfers == 2
MaxSub == 1
MaxUnlocks == 3
MaxMemoLen == 4

TxIds == {"t1", "t2"}
Kinds == {"trx", "trc10", "trc20"}
Undefined == <<"undefined">>
AssetTypes == {"trx", "trc10", "trc20", "eth"}

\* ForceBridgeCore.config.tron: committee and feeLimit
CommitteeAddress == "TBridge"
CommitteeKeys == <<"k1", "k2">>
PermissionId == 2
FeeLimit == 1000000

VARIABLES
  visible,            \* confirmed incoming transfers the indexer knows
  lockPc,             \* the await watchLockEvents is suspended at
  lockFailedAt,       \* the await that threw, "" while none did
  minTimestamp,       \* const minTimestamp of the running iteration
  trxAndTrc10Events,  \* result of getTrxAndTrc10LockEvents
  trc20Data,          \* txs.data of getTrc20TxsLockEvents still to look up
  trc20LockEvents,    \* lockEvents of getTrc20TxsLockEvents
  ckbMintRecords,     \* batch handed to createCkbMint
  tronLockRecords,    \* batch handed to createTronLock
  mintRequests,       \* store: ckb_mint rows
  lockRecords,        \* store: tron_lock rows
  reported,           \* history: transfers some upstream query returned
  submittedIds,       \* history: ids handed to createCkbMint by earlier calls
  lookups,            \* history: getTransaction calls of the running iteration
  unlockRows,         \* store: tron_unlock rows, row i has id i
  unlockPc,           \* the await watchUnlockEvents is suspended at
  unlockFailedAt,     \* the await that threw, "" while none did
  pendingRecords,     \* loaded by getTronUnlockRecords('pending')
  unlockRecords,      \* loaded by getTronUnlockRecords('todo')
  unlockIdx,          \* position of the for loop in unlockRecords
  signedTx,           \* the transaction being built and signed
  keyIdx,             \* position of the for loop in committee.keys
  ledger,             \* transactions broadcast, in order
  finalized,          \* txids that reached finality on the ledger
  walletCalls,        \* history: wallet calls made for the current request
  memoIn,             \* the memo of the event handed to transferEventToCkbMint
  memoOut,            \* the record it returned
  memoPc              \* "call" before the call, "returned" after it

lockVars == <<visible, lockPc, lockFailedAt, minTimestamp, trxAndTrc10Events,
              trc20Data, trc20LockEvents, ckbMintRecords, tronLockRecords,
              mintRequests, lockRecords, reported, submittedIds, lookups>>

unlockVars == <<unlockRows, unlockPc, unlockFailedAt, pendingRecords, unlockRecords,
                unlockIdx, signedTx, keyIdx, ledger, finalized, walletCalls>>

memoVars == <<memoIn, memoOut, memoPc>>

vars == <<lockVars, unlockVars, memoVars>>

\* ------------------------------------------------------------- helpers
Max(S) == CHOOSE x \in S : \A y \in S : y <= x

Range(s) == {s[i] : i \in 1..Len(s)}

\* txs.data of an answer: the records of the answer, each once, in the order
\* the indexer lists them. The code keeps that order and nothing in it fixes
\* one, so every order is possible.
Listings(S) == {data \in [1..Cardinality(S) -> S] : Range(data) = S}

\* The content of a transfer on the ledger: memo and sender belong to the
\* transaction, the amount to the transfer inside it.
MemoOf(tx) == IF tx = "t1" THEN <<"r", ",", "x">> ELSE <<"r">>
SenderOf(tx) == IF tx = "t1" THEN "S1" ELSE "S2"
AmountOf(d) == IF d.sub = 0 THEN "100" ELSE "200"
AssetNameOf(d) ==
  IF d.kind = "trx" THEN "" ELSE IF d.kind = "trc10" THEN "1000001" ELSE "TContract"

\* ------------------------------------------------------------- pure code
\* memo.split(',', 2): the pieces between commas, cut to the first two.
RECURSIVE SplitComma(_, _)
SplitComma(memo, cur) ==
  IF memo = <<>> THEN <<cur>>
  ELSE IF Head(memo) = "," THEN <<cur>> \o SplitComma(Tail(memo), <<>>)
  ELSE SplitComma(Tail(memo), Append(cur, Head(memo)))

SplitLimit(memo, limit) ==
  LET all == SplitComma(memo, <<>>)
  IN IF Len(all) <= limit THEN all ELSE SubSeq(all, 1, limit)

analyzeMemo(memo) ==
  LET splitted == SplitLimit(memo, 2)
  IN [ckbRecipient |-> splitted[1],
      sudtExtraData |-> IF Len(splitted) >= 2 THEN splitted[2] ELSE Undefined]

\* getTrxAndTrc10LockEvents, the body of its for loop
TrxAndTrc10Event(d) ==
  [tx_hash |-> d.tx, index |-> 0, sender |-> SenderOf(d.tx),
   asset |-> IF AssetNameOf(d) # "" THEN AssetNameOf(d) ELSE "trx",
   amount |-> AmountOf(d), memo |-> MemoOf(d.tx), timestamp |-> d.ts]

\* getTrc20TxsLockEvents, the body of its for loop
Trc20Event(d) ==
  [tx_hash |-> d.tx, index |-> 0, sender |-> SenderOf(d.tx),
   asset |-> AssetNameOf(d),
   amount |-> AmountOf(d), memo |-> MemoOf(d.tx), timestamp |-> d.ts]

LockEventOf(d) == IF d.kind = "trc20" THEN Trc20Event(d) ELSE TrxAndTrc10Event(d)

MintId(event) == event.tx_hash \o "_" \o ToString(event.index)

transferEventToCkbMint(event) ==
  LET m == analyzeMemo(event.memo)
  IN [id |-> MintId(event), chain |-> "TRON", asset |-> event.asset,
      amount |-> event.amount, recipientLockscript |-> m.ckbRecipient,
      sudtExtraData |-> m.sudtExtraData]

\* a mapping that stores the event's index where its timestamp belongs
transferEventToTronLockNoTime(event) ==
  [txHash |-> event.tx_hash, txIndex |-> 0, sender |-> event.sender,
   asset |-> event.asset, assetType |-> event.asset, amount |-> event.amount,
   memo |-> event.memo, timestamp |-> event.index]

transferEventToTronLock(event) ==
  [txHash |-> event.tx_hash, txIndex |-> 0, sender |-> event.sender,
   asset |-> event.asset, assetType |-> event.asset, amount |-> event.amount,
   memo |-> event.memo, timestamp |-> event.timestamp]

\* a test that also skips the events observed at the checkpoint itself
IsStaleOrEqual(event, minTs) == event.timestamp <= minTs

\* the test of line 128: the event is skipped
IsStale(event, minTs) == event.timestamp < minTs

RECURSIVE Surviving(_, _)
Surviving(events, minTs) ==
  IF events = <<>> THEN <<>>
  ELSE IF IsStale(Head(events), minTs) THEN Surviving(Tail(events), minTs)
  ELSE <<Head(events)>> \o Surviving(Tail(events), minTs)

totalLockEvents == trxAndTrc10Events \o trc20LockEvents

\* ------------------------------------------------------------- store
\* TronDb.getLatestTimestamp: the largest timestamp of the tron_lock rows.
GetLatestTimestamp(rows) ==
  IF rows = {} THEN 0 ELSE Max({r.timestamp : r \in rows})

\* TronDb.createCkbMint: rows are keyed by id, a later row replaces an earlier.
RECURSIVE SaveMints(_, _)
SaveMints(rows, batch) ==
  IF batch = <<>> THEN rows
  ELSE SaveMints({r \in rows : r.id # Head(batch).id} \cup {Head(batch)}, Tail(batch))

\* TronDb.createTronLock: appends the rows to the log.
SaveLocks(rows, batch) == rows \cup Range(batch)

\* ------------------------------------------------------------- indexer
Transfers ==
  [tx : TxIds, sub : 0..MaxSub, kind : Kinds, ts : 1..MaxTs]

\* A transfer is confirmed on the ledger and becomes visible to the indexer.
\* Transfers of one transaction share its block timestamp; only contract-token
\* transfers can be several in one transaction.
ChainConfirm ==
  /\ Cardinality(visible) < MaxTransfers
  /\ \E d \in Transfers :
       /\ \A e \in visible : ~(e.tx = d.tx /\ e.sub = d.sub)
       /\ \A e \in visible :
            e.tx = d.tx => (e.ts = d.ts /\ e.kind = "trc20" /\ d.kind = "trc20")
       /\ visible' = visible \cup {d}
  /\ UNCHANGED <<lockPc, lockFailedAt, minTimestamp, trxAndTrc10Events, trc20Data,
                 trc20LockEvents, ckbMintRecords, tronLockRecords, mintRequests,
                 lockRecords, reported, submittedIds, lookups>>
  /\ UNCHANGED unlockVars
  /\ UNCHANGED memoVars

\* What a query with min_timestamp answers: every visible transfer of the
\* window, and possibly transfers older than the window (a stale answer).
QueryAnswers(S, minTs) ==
  {W \cup X : W \in {{d \in S : d.ts >= minTs}},
              X \in SUBSET {d \in S : d.ts < minTs}}

\* ------------------------------------------------------------- lock watcher
ReadCheckpoint(rows) == GetLatestTimestamp(rows)

LGetLatestTimestamp ==
  /\ lockPc = "getLatestTimestamp"
  /\ minTimestamp' = ReadCheckpoint(lockRecords)
  /\ lockPc' = "getTransactions"
  /\ lookups' = <<>>
  /\ UNCHANGED <<visible, lockFailedAt, trxAndTrc10Events, trc20Data, trc20LockEvents,
                 ckbMintRecords, tronLockRecords, mintRequests, lockRecords,
                 reported, submittedIds>>
  /\ UNCHANGED unlockVars
  /\ UNCHANGED memoVars

LGetTransactions ==
  /\ lockPc = "getTransactions"
  /\ \E A \in QueryAnswers({d \in visible : d.kind # "trc20"}, minTimestamp) :
       /\ \E data \in Listings(A) :
            trxAndTrc10Events' = [k \in 1..Len(data) |-> TrxAndTrc10Event(data[k])]
       /\ reported' = reported \cup A
  /\ lockPc' = "getTrc20Transactions"
  /\ UNCHANGED <<visible, lockFailedAt, minTimestamp, trc20Data, trc20LockEvents,
                 ckbMintRecords, tronLockRecords, mintRequests, lockRecords,
                 submittedIds, lookups>>
  /\ UNCHANGED unlockVars
  /\ UNCHANGED memoVars

\* the two writes awaited in the opposite order
StoreWritesSwapped == <<"createTronLock", "createCkbMint">>

\* lines 136-137: the two store writes of an iteration, in the order awaited
StoreWrites == <<"createCkbMint", "createTronLock">>

AfterWrite(w) == IF w = StoreWrites[1] THEN StoreWrites[2] ELSE "asyncSleep"

\* lines 125-136 up to the call of the first store write: no await in between
BuildBatches(events) ==
  /\ LET kept == Surviving(events, minTimestamp)
     IN /\ ckbMintRecords' = [k \in 1..Len(kept) |-> transferEventToCkbMint(kept[k])]
        /\ tronLockRecords' = [k \in 1..Len(kept) |-> transferEventToTronLock(kept[k])]
  /\ lockPc' = StoreWrites[1]

LGetTrc20Transactions ==
  /\ lockPc = "getTrc20Transactions"
  /\ \E A \in QueryAnswers({d \in visible : d.kind = "trc20"}, minTimestamp) :
       /\ \E data \in Listings(A) : trc20Data' = data
       /\ reported' = reported \cup A
       /\ IF A = {}
            THEN BuildBatches(trxAndTrc10Events)
            ELSE /\ lockPc' = "getTransaction"
                 /\ UNCHANGED <<ckbMintRecords, tronLockRecords>>
  /\ trc20LockEvents' = <<>>
  /\ UNCHANGED <<visible, lockFailedAt, minTimestamp, trxAndTrc10Events,
                 mintRequests, lockRecords, submittedIds, lookups>>
  /\ UNCHANGED unlockVars
  /\ UNCHANGED memoVars

\* a lookup that is skipped when the transaction was already looked up
LookupsAfterCached(log, data) ==
  IF \E k \in 1..Len(log) : log[k] = data.tx THEN log ELSE Append(log, data.tx)

\* trx.getTransaction(data.transaction_id), once per record of txs.data
LookupsAfter(log, data) == Append(log, data.tx)

LGetTransaction ==
  /\ lockPc = "getTransaction"
  /\ trc20Data # <<>>
  /\ lookups' = LookupsAfter(lookups, Head(trc20Data))
  /\ trc20LockEvents' = Append(trc20LockEvents, Trc20Event(Head(trc20Data)))
  /\ trc20Data' = Tail(trc20Data)
  /\ IF Tail(trc20Data) = <<>>
       THEN BuildBatches(trxAndTrc10Events \o trc20LockEvents')
       ELSE UNCHANGED <<lockPc, ckbMintRecords, tronLockRecords>>
  /\ UNCHANGED <<visible, lockFailedAt, minTimestamp, trxAndTrc10Events,
                 mintRequests, lockRecords, reported, submittedIds>>
  /\ UNCHANGED unlockVars
  /\ UNCHANGED memoVars

LCreateCkbMint ==
  /\ lockPc = "createCkbMint"
  /\ mintRequests' = SaveMints(mintRequests, ckbMintRecords)
  /\ submittedIds' = submittedIds \cup {m.id : m \in Range(ckbMintRecords)}
  /\ lockPc' = AfterWrite("createCkbMint")
  /\ UNCHANGED <<visible, lockFailedAt, minTimestamp, trxAndTrc10Events, trc20Data,
                 trc20LockEvents, ckbMintRecords, tronLockRecords, lockRecords,
                 reported, lookups>>
  /\ UNCHANGED unlockVars
  /\ UNCHANGED memoVars

LCreateTronLock ==
  /\ lockPc = "createTronLock"
  /\ lockRecords' = SaveLocks(lockRecords, tronLockRecords)
  /\ lockPc' = AfterWrite("createTronLock")
  /\ UNCHANGED <<visible, lockFailedAt, minTimestamp, trxAndTrc10Events, trc20Data,
                 trc20LockEvents, ckbMintRecords, tronLockRecords, mintRequests,
                 submittedIds, reported, lookups>>
  /\ UNCHANGED unlockVars
  /\ UNCHANGED memoVars

\* asyncSleep(3000) returns and the while loop starts over with fresh locals.
LSleep ==
  /\ lockPc = "asyncSleep"
  /\ lockPc' = "getLatestTimestamp"
  /\ trxAndTrc10Events' = <<>>
  /\ trc20Data' = <<>>
  /\ trc20LockEvents' = <<>>
  /\ ckbMintRecords' = <<>>
  /\ tronLockRecords' = <<>>
  /\ UNCHANGED <<visible, lockFailedAt, minTimestamp, mintRequests, lockRecords,
                 reported, submittedIds, lookups>>
  /\ UNCHANGED unlockVars
  /\ UNCHANGED memoVars

LockAwaits == {"getLatestTimestamp", "getTransactions", "getTrc20Transactions",
               "getTransaction", "createCkbMint", "createTronLock"}

\* An awaited call throws. watchLockEvents has no try/catch and start() does
\* not await it: the promise rejects and the loop is never entered again.
LThrow ==
  /\ lockPc \in LockAwaits
  /\ lockFailedAt' = lockPc
  /\ lockPc' = "rejected"
  /\ submittedIds' = IF lockPc = "createCkbMint"
                       THEN submittedIds \cup {m.id : m \in Range(ckbMintRecords)}
                       ELSE submittedIds
  /\ UNCHANGED <<visible, minTimestamp, trxAndTrc10Events, trc20Data, trc20LockEvents,
                 ckbMintRecords, tronLockRecords, mintRequests, lockRecords,
                 reported, lookups>>
  /\ UNCHANGED unlockVars
  /\ UNCHANGED memoVars

watchLockEvents ==
  \/ LGetLatestTimestamp
  \/ LGetTransactions
  \/ LGetTrc20Transactions
  \/ LGetTransaction
  \/ LCreateCkbMint
  \/ LCreateTronLock
  \/ LSleep

LockInit ==
  /\ visible = {}
  /\ lockPc = "getLatestTimestamp"
  /\ lockFailedAt = ""
  /\ minTimestamp = 0
  /\ trxAndTrc10Events = <<>>
  /\ trc20Data = <<>>
  /\ trc20LockEvents = <<>>
  /\ ckbMintRecords = <<>>
  /\ tronLockRecords = <<>>
  /\ mintRequests = {}
  /\ lockRecords = {}
  /\ reported = {}
  /\ submittedIds = {}
  /\ lookups = <<>>

\* ------------------------------------------------------------- unlock rows
\* The content of the unlock request with id i (written by the burn pipeline).
RecipientOf(i) == "R" \o ToString(i)
UnlockAmountOf(i) == IF i = 1 THEN "100" ELSE "7"
UnlockMemoOf(i) == "m" \o ToString(i)
UnlockAssetOf(assetType) ==
  IF assetType = "trx" THEN "trx"
  ELSE IF assetType = "trc10" THEN "1000001" ELSE "TContract"

\* +unlockRecord.amount
ToNumber(str) == IF str = "100" THEN 100 ELSE 7

NewUnlockRow(i, assetType) ==
  [id |-> i, assetType |-> assetType, asset |-> UnlockAssetOf(assetType),
   recipientAddress |-> RecipientOf(i), amount |-> UnlockAmountOf(i),
   memo |-> UnlockMemoOf(i), status |-> "todo", tronTxHash |-> "", tronTxIndex |-> -1]

\* A burn on the host chain finalizes: a todo row is written by its pipeline.
BurnFinalized ==
  /\ Len(unlockRows) < MaxUnlocks
  /\ \E t \in AssetTypes :
       unlockRows' = Append(unlockRows, NewUnlockRow(Len(unlockRows) + 1, t))
  /\ UNCHANGED <<unlockPc, unlockFailedAt, pendingRecords, unlockRecords, unlockIdx,
                 signedTx, keyIdx, ledger, finalized, walletCalls>>
  /\ UNCHANGED lockVars
  /\ UNCHANGED memoVars

\* A broadcast transaction reaches finality on the ledger.
LedgerFinalize ==
  /\ \E i \in 1..Len(ledger) :
       /\ ledger[i].txid \notin finalized
       /\ finalized' = finalized \cup {ledger[i].txid}
  /\ UNCHANGED <<unlockRows, unlockPc, unlockFailedAt, pendingRecords, unlockRecords,
                 unlockIdx, signedTx, keyIdx, ledger, walletCalls>>
  /\ UNCHANGED lockVars
  /\ UNCHANGED memoVars

\* TronDb.getTronUnlockRecords(status)
RECURSIVE SelectSeq2(_, _)
SelectSeq2(rows, status) ==
  IF rows = <<>> THEN <<>>
  ELSE IF Head(rows).status = status
         THEN <<Head(rows)>> \o SelectSeq2(Tail(rows), status)
         ELSE SelectSeq2(Tail(rows), status)

GetTronUnlockRecords(rows, status) == SelectSeq2(rows, status)

\* TronDb.saveTronUnlock(records): each record replaces the row of its id.
RECURSIVE SaveTronUnlock(_, _)
SaveTronUnlock(rows, records) ==
  IF records = <<>> THEN rows
  ELSE SaveTronUnlock([rows EXCEPT ![Head(records).id] = Head(records)], Tail(records))

\* ------------------------------------------------------------- wallet
NoTx == [fn |-> "none"]

\* a native transfer built with recipient and operating account exchanged
BuildTrxSwapped(r) ==
  [fn |-> "sendTrx", req |-> r.id, to |-> CommitteeAddress,
   amount |-> ToNumber(r.amount), from |-> r.recipientAddress,
   permissionId |-> PermissionId, memo |-> "", signature |-> <<>>]

\* transactionBuilder.sendTrx / sendToken / triggerSmartContract as called by
\* multiSignTransferTrx / Trc10 / Trc20
BuildTrx(r) ==
  [fn |-> "sendTrx", req |-> r.id, to |-> r.recipientAddress,
   amount |-> ToNumber(r.amount), from |-> CommitteeAddress,
   permissionId |-> PermissionId, memo |-> "", signature |-> <<>>]

BuildTrc10(r) ==
  [fn |-> "sendToken", req |-> r.id, to |-> r.recipientAddress, amount |-> r.amount,
   tokenID |-> r.asset, from |-> CommitteeAddress,
   permissionId |-> PermissionId, memo |-> "", signature |-> <<>>]

\* a contract call whose two parameter values are exchanged
BuildTrc20ParamsSwapped(r) ==
  [fn |-> "triggerSmartContract", req |-> r.id, contract |-> r.asset,
   functionSelector |-> "transfer(address,uint256)",
   permissionId |-> PermissionId, feeLimit |-> FeeLimit,
   params |-> << [type |-> "address", value |-> r.amount],
                 [type |-> "uint256", value |-> r.recipientAddress] >>,
   from |-> CommitteeAddress, memo |-> "", signature |-> <<>>]

BuildTrc20(r) ==
  [fn |-> "triggerSmartContract", req |-> r.id, contract |-> r.asset,
   functionSelector |-> "transfer(address,uint256)",
   permissionId |-> PermissionId, feeLimit |-> FeeLimit,
   params |-> << [type |-> "address", value |-> r.recipientAddress],
                 [type |-> "uint256", value |-> r.amount] >>,
   from |-> CommitteeAddress, memo |-> "", signature |-> <<>>]

\* the switch of lines 238-248
HasCase(assetType) == assetType \in {"trx", "trc10", "trc20"}

BuildFor(r) ==
  IF r.assetType = "trx" THEN BuildTrx(r)
  ELSE IF r.assetType = "trc10" THEN BuildTrc10(r)
  ELSE BuildTrc20(r)

\* transactionBuilder.addUpdateData(tx, memo, 'utf8')
AddUpdateData(tx, memo) == [tx EXCEPT !.memo = memo]

\* trx.multiSign(tx, key): the signature of key is added to the transaction
MultiSign(tx, key) == [tx EXCEPT !.signature = Append(@, key)]

\* a signing loop that signs with the first key in every round
SigningKeyAlwaysFirst(i) == CommitteeKeys[1]

\* the key the for loop of lines 155-157 signs with in its i-th round
SigningKey(i) == CommitteeKeys[i]

\* trx.broadcast(tx): the id of the n-th transaction the ledger accepted
TxidOf(n) == "x" \o ToString(n)

\* a dispatch that marks the row settled at once
MarkDispatchedAsSuccess(r, txid) ==
  [r EXCEPT !.tronTxHash = txid, !.tronTxIndex = 0, !.status = "success"]

\* lines 249-251
MarkDispatched(r, txid) ==
  [r EXCEPT !.tronTxHash = txid, !.tronTxIndex = 0, !.status = "pending"]

\* a confirmation written onto the row of another id
MarkConfirmedElsewhere(r) == [r EXCEPT !.status = "success", !.id = 1]

\* a confirm sweep that leaves the status as it is
MarkConfirmedKeepsPending(r) == r

\* line 230
MarkConfirmed(r) == [r EXCEPT !.status = "success"]

\* The for loop of lines 236-252 from position i up to its next await: a record
\* whose assetType matches no case is marked with the unassigned txid at once.
RECURSIVE RunToAwait(_, _)
RunToAwait(records, i) ==
  IF i > Len(records) THEN [records |-> records, idx |-> i]
  ELSE IF HasCase(records[i].assetType) THEN [records |-> records, idx |-> i]
  ELSE RunToAwait([records EXCEPT ![i] = MarkDispatched(records[i], "undefined")], i + 1)

\* ------------------------------------------------------------- unlock settler
UGetPending ==
  /\ unlockPc = "getPending"
  /\ pendingRecords' =
       LET loaded == GetTronUnlockRecords(unlockRows, "pending")
       IN [k \in 1..Len(loaded) |-> MarkConfirmed(loaded[k])]
  /\ unlockPc' = "savePending"
  /\ UNCHANGED <<unlockRows, unlockFailedAt, unlockRecords, unlockIdx, signedTx,
                 keyIdx, ledger, finalized, walletCalls>>
  /\ UNCHANGED lockVars
  /\ UNCHANGED memoVars

USavePending ==
  /\ unlockPc = "savePending"
  /\ unlockRows' = SaveTronUnlock(unlockRows, pendingRecords)
  /\ unlockPc' = "getTodo"
  /\ UNCHANGED <<unlockFailedAt, pendingRecords, unlockRecords, unlockIdx, signedTx,
                 keyIdx, ledger, finalized, walletCalls>>
  /\ UNCHANGED lockVars
  /\ UNCHANGED memoVars

\* Where the loop stands after RunToAwait: at the build of record idx, or past
\* the last record at the call of saveTronUnlock.
Resume(run) ==
  /\ unlockRecords' = run.records
  /\ unlockIdx' = run.idx
  /\ unlockPc' = IF run.idx > Len(run.records) THEN "saveTodo" ELSE "build"

UGetTodo ==
  /\ unlockPc = "getTodo"
  /\ Resume(RunToAwait(GetTronUnlockRecords(unlockRows, "todo"), 1))
  /\ walletCalls' = <<>>
  /\ UNCHANGED <<unlockRows, unlockFailedAt, pendingRecords, signedTx, keyIdx,
                 ledger, finalized>>
  /\ UNCHANGED lockVars
  /\ UNCHANGED memoVars

UBuild ==
  /\ unlockPc = "build"
  /\ signedTx' = BuildFor(unlockRecords[unlockIdx])
  /\ walletCalls' = <<signedTx'.fn>>
  /\ unlockPc' = "addUpdateData"
  /\ UNCHANGED <<unlockRows, unlockFailedAt, pendingRecords, unlockRecords, unlockIdx,
                 keyIdx, ledger, finalized>>
  /\ UNCHANGED lockVars
  /\ UNCHANGED memoVars

UAddUpdateData ==
  /\ unlockPc = "addUpdateData"
  /\ signedTx' = AddUpdateData(signedTx, unlockRecords[unlockIdx].memo)
  /\ walletCalls' = Append(walletCalls, "addUpdateData")
  /\ keyIdx' = 1
  /\ unlockPc' = IF Len(CommitteeKeys) = 0 THEN "broadcast" ELSE "multiSign"
  /\ UNCHANGED <<unlockRows, unlockFailedAt, pendingRecords, unlockRecords, unlockIdx,
                 ledger, finalized>>
  /\ UNCHANGED lockVars
  /\ UNCHANGED memoVars

UMultiSign ==
  /\ unlockPc = "multiSign"
  /\ signedTx' = MultiSign(signedTx, SigningKey(keyIdx))
  /\ walletCalls' = Append(walletCalls, "multiSign")
  /\ keyIdx' = keyIdx + 1
  /\ unlockPc' = IF keyIdx + 1 > Len(CommitteeKeys) THEN "broadcast" ELSE "multiSign"
  /\ UNCHANGED <<unlockRows, unlockFailedAt, pendingRecords, unlockRecords, unlockIdx,
                 ledger, finalized>>
  /\ UNCHANGED lockVars
  /\ UNCHANGED memoVars

UBroadcast ==
  /\ unlockPc = "broadcast"
  /\ LET txid == TxidOf(Len(ledger) + 1)
         marked == [unlockRecords EXCEPT
                      ![unlockIdx] = MarkDispatched(unlockRecords[unlockIdx], txid)]
     IN /\ ledger' = Append(ledger, [txid |-> txid, tx |-> signedTx])
        /\ Resume(RunToAwait(marked, unlockIdx + 1))
  /\ walletCalls' = Append(walletCalls, "broadcast")
  /\ signedTx' = NoTx
  /\ keyIdx' = 0
  /\ UNCHANGED <<unlockRows, unlockFailedAt, pendingRecords, finalized>>
  /\ UNCHANGED lockVars
  /\ UNCHANGED memoVars

USaveTodo ==
  /\ unlockPc = "saveTodo"
  /\ unlockRows' = SaveTronUnlock(unlockRows, unlockRecords)
  /\ unlockPc' = "asyncSleep"
  /\ UNCHANGED <<unlockFailedAt, pendingRecords, unlockRecords, unlockIdx, signedTx,
                 keyIdx, ledger, finalized, walletCalls>>
  /\ UNCHANGED lockVars
  /\ UNCHANGED memoVars

USleep ==
  /\ unlockPc = "asyncSleep"
  /\ unlockPc' = "getPending"
  /\ pendingRecords' = <<>>
  /\ unlockRecords' = <<>>
  /\ unlockIdx' = 0
  /\ walletCalls' = <<>>
  /\ UNCHANGED <<unlockRows, unlockFailedAt, signedTx, keyIdx, ledger, finalized>>
  /\ UNCHANGED lockVars
  /\ UNCHANGED memoVars

UnlockAwaits == {"getPending", "savePending", "getTodo", "build", "addUpdateData",
                 "multiSign", "broadcast", "saveTodo"}

\* An awaited call throws. watchUnlockEvents has no try/catch and start() does
\* not await it: the promise rejects and the loop is never entered again.
UThrow ==
  /\ unlockPc \in UnlockAwaits
  /\ unlockFailedAt' = unlockPc
  /\ unlockPc' = "rejected"
  /\ UNCHANGED <<unlockRows, pendingRecords, unlockRecords, unlockIdx, signedTx,
                 keyIdx, ledger, finalized, walletCalls>>
  /\ UNCHANGED lockVars
  /\ UNCHANGED memoVars

watchUnlockEvents ==
  \/ UGetPending
  \/ USavePending
  \/ UGetTodo
  \/ UBuild
  \/ UAddUpdateData
  \/ UMultiSign
  \/ UBroadcast
  \/ USaveTodo
  \/ USleep

UnlockInit ==
  /\ unlockRows = <<>>
  /\ unlockPc = "getPending"
  /\ unlockFailedAt = ""
  /\ pendingRecords = <<>>
  /\ unlockRecords = <<>>
  /\ unlockIdx = 0
  /\ signedTx = NoTx
  /\ keyIdx = 0
  /\ ledger = <<>>
  /\ finalized = {}
  /\ walletCalls = <<>>

\* ------------------------------------------------------------- memo mapping
MemoChars == {"a", "b", ","}

Memos == UNION {[1..n -> MemoChars] : n \in 0..MaxMemoLen}

\* a lock event carrying the memo
EventWithMemo(memo) ==
  [tx_hash |-> "t1", index |-> 0, sender |-> "S1", asset |-> "trx",
   amount |-> "100", memo |-> memo, timestamp |-> 1]

NoMint == [id |-> ""]

\* transferEventToCkbMint is applied to an event with the memo memoIn.
MTransferEventToCkbMint ==
  /\ memoPc = "call"
  /\ memoOut' = transferEventToCkbMint(EventWithMemo(memoIn))
  /\ memoPc' = "returned"
  /\ UNCHANGED memoIn
  /\ UNCHANGED <<lockVars, unlockVars>>

\* The next event is mapped.
MNextEvent ==
  /\ memoPc = "returned"
  /\ \E m \in Memos : memoIn' = m
  /\ memoOut' = NoMint
  /\ memoPc' = "call"
  /\ UNCHANGED <<lockVars, unlockVars>>

MemoIdle ==
  /\ memoIn = <<>>
  /\ memoOut = NoMint
  /\ memoPc = "returned"

\* start(): both loops are entered.
Init == LockInit /\ UnlockInit /\ MemoIdle

MemoNext ==
  \/ MTransferEventToCkbMint
  \/ MNextEvent

MemoSpec == Init /\ [][MemoNext]_vars

UnlockNext ==
  \/ BurnFinalized
  \/ LedgerFinalize
  \/ watchUnlockEvents
  \/ UThrow

UnlockSpec == Init /\ [][UnlockNext]_vars

LockNext ==
  \/ ChainConfirm
  \/ watchLockEvents
  \/ LThrow

LockSpec == Init /\ [][LockNext]_vars

\* The loop of watchLockEvents is scheduled whenever its awaited call has returned;
\* nothing obliges a call to throw.
FairLockSpec == Init /\ [][LockNext]_vars /\ WF_vars(watchLockEvents)

\* Both loops of start() interleaved at their awaits.
Next == LockNext \/ UnlockNext

Spec == Init /\ [][Next]_vars

\* The runs of the lock watcher in which no awaited call throws.
LockNextNoThrow ==
  \/ ChainConfirm
  \/ watchLockEvents

FairLockNoThrowSpec == Init /\ [][LockNextNoThrow]_vars /\ WF_vars(watchLockEvents)

\* Both loops of start() interleaved at their awaits over a store and an
\* indexer that already hold data: one native transfer and one contract-token
\* transfer are visible and FrameUnlocks unlock requests of any asset type
\* wait in todo.
FrameUnlocks == 2

FrameVisible ==
  {[tx |-> "t1", sub |-> 0, kind |-> "trx", ts |-> 1],
   [tx |-> "t2", sub |-> 0, kind |-> "trc20", ts |-> 2]}

FrameInit ==
  /\ visible = FrameVisible
  /\ lockPc = "getLatestTimestamp"
  /\ lockFailedAt = ""
  /\ minTimestamp = 0
  /\ trxAndTrc10Events = <<>>
  /\ trc20Data = <<>>
  /\ trc20LockEvents = <<>>
  /\ ckbMintRecords = <<>>
  /\ tronLockRecords = <<>>
  /\ mintRequests = {}
  /\ lockRecords = {}
  /\ reported = {}
  /\ submittedIds = {}
  /\ lookups = <<>>
  /\ \E types \in [1..FrameUnlocks -> AssetTypes] :
       unlockRows = [i \in 1..FrameUnlocks |-> NewUnlockRow(i, types[i])]
  /\ unlockPc = "getPending"
  /\ unlockFailedAt = ""
  /\ pendingRecords = <<>>
  /\ unlockRecords = <<>>
  /\ unlockIdx = 0
  /\ signedTx = NoTx
  /\ keyIdx = 0
  /\ ledger = <<>>
  /\ finalized = {}
  /\ walletCalls = <<>>
  /\ MemoIdle

LockTask == watchLockEvents \/ LThrow

UnlockTask == watchUnlockEvents \/ UThrow

FrameNext ==
  \/ LockTask
  \/ UnlockTask

FrameSpec == FrameInit /\ [][FrameNext]_vars

\* start() is called again on the same store after both loops were rejected:
\* line 260 enters watchLockEvents and line 261 watchUnlockEvents, each with
\* fresh locals; the store, the indexer and the ledger are what the earlier
\* run left. No loop of the earlier run is alive. The number of broadcasts is
\* capped to keep the ledger finite.
StartAgain ==
  /\ lockPc = "rejected"
  /\ unlockPc = "rejected"
  /\ Len(ledger) < MaxUnlocks
  /\ lockPc' = "getLatestTimestamp"
  /\ lockFailedAt' = ""
  /\ minTimestamp' = 0
  /\ trxAndTrc10Events' = <<>>
  /\ trc20Data' = <<>>
  /\ trc20LockEvents' = <<>>
  /\ ckbMintRecords' = <<>>
  /\ tronLockRecords' = <<>>
  /\ lookups' = <<>>
  /\ UNCHANGED <<visible, mintRequests, lockRecords, reported, submittedIds>>
  /\ unlockPc' = "getPending"
  /\ unlockFailedAt' = ""
  /\ pendingRecords' = <<>>
  /\ unlockRecords' = <<>>
  /\ unlockIdx' = 0
  /\ signedTx' = NoTx
  /\ keyIdx' = 0
  /\ walletCalls' = <<>>
  /\ UNCHANGED <<unlockRows, ledger, finalized>>
  /\ UNCHANGED memoVars

\* The settler with failures and restarts; of the lock watcher only the
\* failure of its first call is followed, which leaves it rejected.
RestartNext ==
  \/ UnlockNext
  \/ LThrow
  \/ StartAgain

RestartSpec == Init /\ [][RestartNext]_vars

\* The runs of the settler in which no awaited call throws, the loop being
\* scheduled whenever its awaited call has returned.
UnlockNextNoThrow ==
  \/ BurnFinalized
  \/ LedgerFinalize
  \/ watchUnlockEvents

FairUnlockNoThrowSpec ==
  Init /\ [][UnlockNextNoThrow]_vars /\ WF_vars(watchUnlockEvents)

\* ============================================================= claims
StatusOf(rows, i) == rows[i].status

LoadedIds(records) == {records[k].id : k \in 1..Len(records)}

\* C1: every change the settler makes to a row's status is todo -> pending or
\* pending -> success; a row in success is never changed again and is in no
\* batch that the confirm sweep or the dispatch sweep loads.
C1_ForwardOnly ==
  [][ /\ Len(unlockRows') >= Len(unlockRows)
      /\ \A i \in 1..Len(unlockRows) :
           /\ StatusOf(unlockRows', i) # StatusOf(unlockRows, i) =>
                \/ StatusOf(unlockRows, i) = "todo" /\ StatusOf(unlockRows', i) = "pending"
                \/ StatusOf(unlockRows, i) = "pending" /\ StatusOf(unlockRows', i) = "success"
           /\ StatusOf(unlockRows, i) = "success" => unlockRows'[i] = unlockRows[i]
           /\ (unlockPc = "getPending" /\ unlockPc' = "savePending"
                 /\ i \in LoadedIds(pendingRecords')) => StatusOf(unlockRows, i) # "success"
           /\ (unlockPc = "getTodo" /\ unlockPc' \in {"build", "saveTodo"}
                 /\ i \in LoadedIds(unlockRecords')) => StatusOf(unlockRows, i) # "success"
    ]_vars

\* A row is in success and the confirm sweep of a later iteration has loaded a
\* batch without it.
C1_Witness ==
  /\ unlockPc = "savePending"
  /\ \E i \in 1..Len(unlockRows) :
       /\ unlockRows[i].status = "success"
       /\ i \notin LoadedIds(pendingRecords)
  /\ \E j \in 1..Len(unlockRows) : j \in LoadedIds(pendingRecords)

\* C2: a transaction is handed to broadcast only when it carries the signature
\* of every key of committee.keys, one each, in list order; so does every
\* transaction on the ledger, whatever its asset kind.
C2_AllKeysInOrder ==
  /\ unlockPc = "broadcast" => signedTx.signature = CommitteeKeys
  /\ \A i \in 1..Len(ledger) : ledger[i].tx.signature = CommitteeKeys

\* A transaction of each of the three asset kinds was broadcast.
C2_Witness ==
  {ledger[i].tx.fn : i \in 1..Len(ledger)} = {"sendTrx", "sendToken", "triggerSmartContract"}

BroadcastTxids == {ledger[k].txid : k \in 1..Len(ledger)}

\* C3: a row whose outbound transaction was broadcast is in success only if
\* that transaction has reached finality on the ledger; while it is not final
\* the row stays pending.
C3_SuccessOnlyIfFinal ==
  \A i \in 1..Len(unlockRows) :
    (unlockRows[i].status = "success" /\ unlockRows[i].tronTxHash \in BroadcastTxids)
      => unlockRows[i].tronTxHash \in finalized

BatchIds == {ckbMintRecords[k].id : k \in 1..Len(ckbMintRecords)}

\* C4: the batch handed to createCkbMint holds no id twice and no id that an
\* earlier call of createCkbMint was handed.
C4_NoIdResubmitted ==
  lockPc = "createCkbMint" =>
    /\ BatchIds \cap submittedIds = {}
    /\ Cardinality(BatchIds) = Len(ckbMintRecords)

LockIdOf(l) == l.txHash \o "_" \o ToString(l.txIndex)

\* C5: in every state a reader of the store finds, for every mint request, the
\* lock record of the same transfer, and for every lock record its mint request.
C5_PersistedTogether ==
  /\ \A m \in mintRequests : \E l \in lockRecords : LockIdOf(l) = m.id
  /\ \A l \in lockRecords : \E m \in mintRequests : LockIdOf(l) = m.id

\* C6: a watcher whose awaited call has thrown can still take a step of its
\* loop, so that another iteration follows.
C6_FailureNeverStops ==
  lockFailedAt # "" => ENABLED watchLockEvents

\* The transfers whose lock record is in the store.
PersistedTransfers ==
  {d \in reported : transferEventToTronLock(LockEventOf(d)) \in lockRecords}

\* C7: the checkpoint an iteration reads is never below the one read before, and
\* it is the largest timestamp among the transfers persisted so far.
C7_CheckpointMonotonicMax ==
  [][ /\ minTimestamp' >= minTimestamp
      /\ (lockPc' = "getTransactions" /\ PersistedTransfers' # {}) =>
           minTimestamp' = Max({d.ts : d \in PersistedTransfers'})
    ]_vars

\* An iteration has read a checkpoint above the one the iteration before read.
C7_Witness ==
  /\ lockPc = "getTransactions"
  /\ minTimestamp = MaxTs
  /\ \E d \in PersistedTransfers : d.ts < minTimestamp

AtOrAfter(events, c) == SelectSeq(events, LAMBDA e : e.timestamp >= c)

\* C8: the batches of an iteration hold, in order, exactly one mint request and
\* one lock record for every returned event observed at or after the checkpoint
\* the iteration read, and nothing for an event observed before it.
C8_BatchIsWindow ==
  lockPc = StoreWrites[1] =>
    LET kept == AtOrAfter(totalLockEvents, minTimestamp)
    IN /\ Len(ckbMintRecords) = Len(kept)
       /\ Len(tronLockRecords) = Len(kept)
       /\ \A i \in 1..Len(kept) :
            /\ ckbMintRecords[i].id = kept[i].tx_hash \o "_0"
            /\ ckbMintRecords[i].amount = kept[i].amount
            /\ tronLockRecords[i].txHash = kept[i].tx_hash
            /\ tronLockRecords[i].amount = kept[i].amount
            /\ tronLockRecords[i].timestamp = kept[i].timestamp
       /\ \A i \in 1..Len(tronLockRecords) : tronLockRecords[i].timestamp >= minTimestamp

\* The queries returned one event observed before the checkpoint and one
\* observed at it, and the batch is built.
C8_Witness ==
  /\ lockPc = StoreWrites[1]
  /\ minTimestamp > 0
  /\ \E i \in 1..Len(totalLockEvents) : totalLockEvents[i].timestamp < minTimestamp
  /\ \E i \in 1..Len(totalLockEvents) : totalLockEvents[i].timestamp = minTimestamp
  /\ Len(ckbMintRecords) = 1

Persisted(d) ==
  /\ transferEventToCkbMint(LockEventOf(d)) \in mintRequests
  /\ transferEventToTronLock(LockEventOf(d)) \in lockRecords

\* C9: every transfer an upstream query has returned is eventually persisted as
\* a mint request and a lock record.
C9_AtLeastOnce ==
  \A d \in Transfers : (d \in reported) ~> Persisted(d)

\* C10: when an upstream query, a lookup or a store write of an iteration has
\* thrown, the checkpoint in the store is the one that iteration read.
C10_NoPartialAdvance ==
  (lockPc = "rejected" /\ lockFailedAt \in LockAwaits \ {"getLatestTimestamp"}) =>
    GetLatestTimestamp(lockRecords) = minTimestamp

\* The second store write of an iteration has thrown after the first one stored
\* a batch with an event observed after the checkpoint.
C10_Witness ==
  /\ lockPc = "rejected"
  /\ lockFailedAt = StoreWrites[2]
  /\ \E i \in 1..Len(tronLockRecords) : tronLockRecords[i].timestamp > minTimestamp
  /\ mintRequests # {}

DispatchAwaits == {"build", "addUpdateData", "multiSign", "broadcast"}

\* C11: when the build, signing or broadcast of one request of a dispatch batch
\* has thrown, every request of the batch whose transaction was broadcast is
\* stored with status pending and the transaction id of its broadcast.
C11_SiblingsPersisted ==
  (unlockPc = "rejected" /\ unlockFailedAt \in DispatchAwaits) =>
    \A k \in 1..Len(ledger) :
      /\ unlockRows[ledger[k].tx.req].status \in {"pending", "success"}
      /\ unlockRows[ledger[k].tx.req].tronTxHash = ledger[k].txid

BroadcastsOf(i) == {k \in 1..Len(ledger) : ledger[k].tx.req = i}

\* C12: no request is in both sweeps of one iteration, and when the dispatch
\* sweep has run through its batch every request it loaded as todo has exactly
\* one transaction on the ledger, signed by every committee key.
C12_OneTransitionOneBroadcast ==
  /\ LoadedIds(pendingRecords) \cap LoadedIds(unlockRecords) = {}
  /\ unlockPc \in {"saveTodo", "asyncSleep"} =>
       \A i \in LoadedIds(unlockRecords) :
         /\ Cardinality(BroadcastsOf(i)) = 1
         /\ \A k \in BroadcastsOf(i) : ledger[k].tx.signature = CommitteeKeys

CommaAt(memo) == {i \in 1..Len(memo) : memo[i] = ","}

FirstComma(memo) == CHOOSE i \in CommaAt(memo) : \A j \in CommaAt(memo) : i <= j

\* C13: the recipient is the text before the first comma of the memo and the
\* extra data is all the text after that comma; a memo without a comma gives
\* the whole memo as recipient and undefined extra data.
C13_SplitAtFirstComma ==
  memoPc = "returned" /\ memoOut # NoMint =>
    IF CommaAt(memoIn) = {}
      THEN /\ memoOut.recipientLockscript = memoIn
           /\ memoOut.sudtExtraData = Undefined
      ELSE /\ memoOut.recipientLockscript = SubSeq(memoIn, 1, FirstComma(memoIn) - 1)
           /\ memoOut.sudtExtraData = SubSeq(memoIn, FirstComma(memoIn) + 1, Len(memoIn))

RECURSIVE SignCalls(_)
SignCalls(n) == IF n = 0 THEN <<>> ELSE <<"multiSign">> \o SignCalls(n - 1)

\* the calls of a native dispatch and the transaction behind a native row
NativeDispatchState ==
  /\ (walletCalls # <<>> /\ walletCalls[1] = "sendTrx"
        /\ walletCalls[Len(walletCalls)] = "broadcast") =>
       walletCalls = <<"sendTrx", "addUpdateData">> \o SignCalls(Len(CommitteeKeys))
                       \o <<"broadcast">>
  /\ \A i \in 1..Len(unlockRows) :
       (unlockRows[i].assetType = "trx" /\ unlockRows[i].status # "todo") =>
         /\ unlockRows[i].tronTxIndex = 0
         /\ \E k \in 1..Len(ledger) :
              /\ ledger[k].txid = unlockRows[i].tronTxHash
              /\ ledger[k].tx.req = i
              /\ ledger[k].tx.fn = "sendTrx"
              /\ ledger[k].tx.to = unlockRows[i].recipientAddress
              /\ ledger[k].tx.amount = ToNumber(unlockRows[i].amount)
              /\ ledger[k].tx.from = CommitteeAddress
              /\ ledger[k].tx.permissionId = PermissionId
              /\ ledger[k].tx.signature = CommitteeKeys

\* the save of a dispatched native row: from todo to pending, with the
\* transaction id of the row's own broadcast and index 0
NativeRowSavedPending ==
  \A i \in 1..Len(unlockRows) :
    (unlockRows[i].assetType = "trx" /\ unlockRows[i].status = "todo"
       /\ unlockRows'[i] # unlockRows[i]) =>
      /\ unlockPc = "saveTodo"
      /\ unlockRows'[i].status = "pending"
      /\ unlockRows'[i].tronTxIndex = 0
      /\ \E k \in BroadcastsOf(i) : ledger[k].txid = unlockRows'[i].tronTxHash

\* C14: the wallet calls of a native request are the native build, then one
\* signature per committee key, then broadcast (the memo is attached after the
\* build); the transaction is built from the request's recipient and amount,
\* the operating account and the authority id; the row of a native todo
\* request is written only by the save that follows its dispatch, which
\* stores it with status pending, the transaction id of its own broadcast
\* and index 0.
C14_NativeDispatch ==
  /\ []NativeDispatchState
  /\ [][NativeRowSavedPending]_vars

\* Two native requests of one batch are stored as pending, each with the
\* transaction id of its own broadcast.
C14_Witness ==
  /\ Len(unlockRows) >= 2
  /\ unlockRows[1].assetType = "trx" /\ unlockRows[2].assetType = "trx"
  /\ unlockRows[1].status = "pending" /\ unlockRows[2].status = "pending"
  /\ unlockRows[1].tronTxHash = "x1" /\ unlockRows[2].tronTxHash = "x2"

\* tx is the contract call of request row: target, selector, parameters, fee limit
IsContractCallOf(tx, row) ==
  /\ tx.fn = "triggerSmartContract"
  /\ tx.req = row.id
  /\ tx.contract = row.asset
  /\ tx.functionSelector = "transfer(address,uint256)"
  /\ tx.params = << [type |-> "address", value |-> row.recipientAddress],
                    [type |-> "uint256", value |-> row.amount] >>
  /\ tx.feeLimit <= FeeLimit

\* C15: the call built for a contract-token request targets the contract
\* named by the request's asset with exactly two parameters, the request's
\* recipient as address and its amount as uint256, and its fee limit is not
\* above the configured one; this holds for the call in hand and for every
\* call that was broadcast.
C15_ContractCallOfRequest ==
  /\ (unlockPc \in {"addUpdateData", "multiSign", "broadcast"}
        /\ unlockRecords[unlockIdx].assetType = "trc20") =>
       IsContractCallOf(signedTx, unlockRecords[unlockIdx])
  /\ \A k \in 1..Len(ledger) :
       unlockRows[ledger[k].tx.req].assetType = "trc20" =>
         IsContractCallOf(ledger[k].tx, unlockRows[ledger[k].tx.req])

\* Two contract-token requests with different recipients and amounts were
\* both broadcast.
C15_Witness ==
  \E j, k \in 1..Len(ledger) :
    /\ j # k
    /\ ledger[j].tx.fn = "triggerSmartContract"
    /\ ledger[k].tx.fn = "triggerSmartContract"
    /\ ledger[j].tx.params # ledger[k].tx.params

\* C16: during and after the contract-token loop of an iteration the
\* getTransaction lookups are, in order, exactly the transaction ids of the
\* contract-token events produced so far, one lookup per record and none for
\* an event not yet looked up; the native query alone causes no lookup.
C16_OneLookupPerTrc20Record ==
  /\ lockPc = "getTrc20Transactions" => lookups = <<>>
  /\ lockPc \in {"getTransaction", "createCkbMint", "createTronLock", "asyncSleep"} =>
       /\ Len(lookups) = Len(trc20LockEvents)
       /\ \A k \in 1..Len(lookups) : lookups[k] = trc20LockEvents[k].tx_hash
  /\ lockPc \in {"createCkbMint", "createTronLock", "asyncSleep"} => trc20Data = <<>>

\* Two contract-token records of one transaction were both looked up.
C16_Witness ==
  /\ lockPc = "createCkbMint"
  /\ Len(lookups) = 2
  /\ lookups[1] = lookups[2]

\* the fields of a row that the settler does not write
RequestOf(row) ==
  [id |-> row.id, assetType |-> row.assetType, asset |-> row.asset,
   recipientAddress |-> row.recipientAddress, amount |-> row.amount,
   memo |-> row.memo]

\* C17: in every interleaving of the two loops a step of the lock watcher
\* leaves the unlock rows unchanged, a step of the settler leaves the
\* checkpoint, the mint requests and the lock records unchanged, and the
\* settler keeps every unlock row at its place with its id and request
\* content, deleting none.
C17_Frame ==
  [][ /\ LockTask => unlockRows' = unlockRows
      /\ UnlockTask =>
           /\ mintRequests' = mintRequests
           /\ lockRecords' = lockRecords
           /\ GetLatestTimestamp(lockRecords') = GetLatestTimestamp(lockRecords)
           /\ minTimestamp' = minTimestamp
           /\ Len(unlockRows') = Len(unlockRows)
           /\ \A i \in 1..Len(unlockRows) :
                RequestOf(unlockRows'[i]) = RequestOf(unlockRows[i])
    ]_vars

\* Both loops have written: the watcher stored a lock record while an unlock
\* row was pending, and the second row has been confirmed.
C17_Witness ==
  /\ lockRecords # {}
  /\ mintRequests # {}
  /\ unlockRows[1].status = "success"
  /\ unlockRows[2].status = "success"
  /\ lockPc = "createTronLock"

\* C18: over all iterations of the settler, those in which a later request of
\* the batch fails or the save of the batch fails included, no unlock request
\* has more than one broadcast on the ledger.
C18_BroadcastAtMostOnce ==
  \A i \in 1..Len(unlockRows) : Cardinality(BroadcastsOf(i)) <= 1

\* C19: a row stored with status pending, whatever its assetType, has on the
\* ledger a broadcast transaction of its own request, fully signed, whose
\* transaction id is the row's tronTxHash.
C19_PendingOnlyIfBroadcast ==
  \A i \in 1..Len(unlockRows) :
    unlockRows[i].status = "pending" =>
      /\ unlockRows[i].tronTxHash # "undefined"
      /\ \E k \in BroadcastsOf(i) :
           /\ ledger[k].txid = unlockRows[i].tronTxHash
           /\ ledger[k].tx.signature = CommitteeKeys

IsInStatus(i, status) == i <= Len(unlockRows) /\ unlockRows[i].status = status

\* C20: when the settler is scheduled fairly and no call fails, every request
\* in todo eventually is pending and every pending request eventually is
\* success; the two changes are made in different iterations: no step takes a
\* row from todo to success, and the requests loaded as todo in an iteration
\* are not success in the store at any later point of that iteration.
C20_TodoPendingSuccess ==
  /\ \A i \in 1..MaxUnlocks : IsInStatus(i, "todo") ~> IsInStatus(i, "pending")
  /\ \A i \in 1..MaxUnlocks : IsInStatus(i, "pending") ~> IsInStatus(i, "success")
  /\ [][\A i \in 1..Len(unlockRows) :
          unlockRows[i].status = "todo" => unlockRows'[i].status # "success"]_vars
  /\ [](unlockPc \in {"build", "addUpdateData", "multiSign", "broadcast",
                      "saveTodo", "asyncSleep"} =>
          \A i \in LoadedIds(unlockRecords) : unlockRows[i].status # "success")

\* After two iterations without a failure the first request is success, its
\* transaction on the ledger, and a request that arrived later is pending.
C20_Witness ==
  /\ unlockFailedAt = ""
  /\ unlockPc = "asyncSleep"
  /\ Len(unlockRows) >= 2
  /\ unlockRows[1].status = "success"
  /\ unlockRows[1].tronTxHash \in BroadcastTxids
  /\ unlockRows[2].status = "pending"

====
